---- MODULE Spec2Model ----
(***************************************************************************)
(* Layer III bit reservoir of shine (src/lib/reservoir.c).                 *)
(*                                                                         *)
(* The four entry points ResvFrameBegin, ResvMaxBits, ResvAdjust and       *)
(* ResvFrameEnd act on the fields of shine_global_config: mean_bits,       *)
(* wave.channels, ResvSize, ResvMax and side_info (the part2_3_length of   *)
(* each granule/channel and resvDrain).  The encoder's frame loop and the  *)
(* quantizer that fills part2_3_length are the callers of this file; they  *)
(* are modelled as the driver around the four operations.                  *)
(*                                                                         *)
(* shine_global_config and gr_info are declared in types.h; the            *)
(* arithmetic below is C `int` arithmetic (division and remainder truncate *)
(* toward zero), and every value of the model stays far inside 32 bits.    *)
(***************************************************************************)
EXTENDS Integers, Sequences, FiniteSets, TLC

VARIABLES
  mean_bits,        \* config->mean_bits
  channels,         \* config->wave.channels
  ResvSize,         \* config->ResvSize
  ResvMax,          \* config->ResvMax
  part2_3_length,   \* config->side_info.gr[gr].ch[ch].tt.part2_3_length, by <<gr, ch>>
  resvDrain,        \* config->side_info.resvDrain
  pc,               \* which call the frame loop makes next
  idx,              \* granule/channel cells of the frame already adjusted
  frames,           \* frames completed
  call              \* the most recent call: its name, arguments, locals, result

vars == <<mean_bits, channels, ResvSize, ResvMax, part2_3_length, resvDrain,
          pc, idx, frames, call>>

(***************************************************************************)
(* Bounds and input sets.                                                  *)
(***************************************************************************)
MaxFrames == 2

ScenarioFrames == 3

\* (mean_bits, channels) of an encoding session: stereo with an odd budget,
\* stereo with an even budget, stereo whose per-channel share is exactly 4095
\* (odd budget), and mono whose per-channel share exceeds the 4095 field cap.
Configs == { <<1001, 2>>, <<1000, 2>>, <<8191, 2>>, <<5000, 1>> }

\* frameLength arguments: the spec's 417, one leaving a small reservoir that
\* is not byte aligned (678), the boundary 7680 and one beyond it.
FrameLengths == { 417, 7002, 7680, 8000 }

\* part2_3_length values the quantizer reports (12-bit field).
BitsUsed == { 0, 500, 4094, 4095 }

\* perceptual entropies: silence, a demanding granule, and one whose
\* product with 3.1 does not fit an int.
PEs == { 0, 2000, 1000000000 }

Cells == (0..1) \X (0..1)

(***************************************************************************)
(* C integer arithmetic.                                                   *)
(***************************************************************************)
\* a / b for b > 0: truncation toward zero
CDiv(a, b) == IF a >= 0 THEN a \div b ELSE -((-a) \div b)

\* a % b for b > 0: the remainder has the sign of a
CRem(a, b) == a - b * CDiv(a, b)

\* The value of (int)(*pe * 3.1 - mean) for an integral pe >= 0, computed as
\* 3*pe + pe/10 - mean truncated toward zero.  A double outside the range of
\* int converts with undefined behaviour: either end of the range is what
\* builds produce.  (3.1 * 700000000 is beyond 2^31 for every mean_bits here.)
DoubleToInt(pe, mean) ==
  LET whole == 3 * pe + (pe \div 10) - mean
      v     == IF whole >= 0 \/ pe % 10 = 0 THEN whole ELSE whole + 1
  IN  IF pe >= 700000000 THEN { -2147483647 - 1, 2147483647 } ELSE {v}

(***************************************************************************)
(* ResvFrameBegin                                                          *)
(***************************************************************************)
resvLimit == 4088

\* FrameResvMax without the resvLimit clamp of lines 47-48.
FrameResvMaxNoLimit(frameLength) ==
  IF frameLength > 7680 THEN 0 ELSE 7680 - frameLength

\* The reservoir size limit of a frame of frameLength bits.
FrameResvMax(frameLength) ==
  LET m == IF frameLength > 7680 THEN 0 ELSE 7680 - frameLength
  IN  IF m > resvLimit THEN resvLimit ELSE m

\* ResvFrameBegin also cutting ResvSize down to the new ResvMax.
ResvFrameBeginClamping(frameLength) ==
  /\ pc = "begin"
  /\ ResvMax' = FrameResvMax(frameLength)
  /\ ResvSize' = IF ResvSize > FrameResvMax(frameLength)
                   THEN FrameResvMax(frameLength) ELSE ResvSize
  /\ pc' = "budget"
  /\ idx' = 0
  /\ call' = [op |-> "ResvFrameBegin", frameLength |-> frameLength]
  /\ UNCHANGED <<mean_bits, channels, part2_3_length, resvDrain, frames>>

\* expectedResvSize and fullFrameBits (lines 33-34) are computed and never
\* used; the call writes ResvMax alone.
ResvFrameBegin(frameLength) ==
  /\ pc = "begin"
  /\ ResvMax' = FrameResvMax(frameLength)
  /\ pc' = "budget"
  /\ idx' = 0
  /\ call' = [op |-> "ResvFrameBegin", frameLength |-> frameLength]
  /\ UNCHANGED <<mean_bits, channels, ResvSize, part2_3_length, resvDrain, frames>>

(***************************************************************************)
(* ResvMaxBits                                                             *)
(***************************************************************************)
\* mean_bits /= channels
PerChannel(mb, ch) == CDiv(mb, ch)

\* max_bits = mean_bits; if(max_bits>4095) max_bits = 4095
BaseBits(mb, ch) ==
  IF PerChannel(mb, ch) > 4095 THEN 4095 ELSE PerChannel(mb, ch)

\* PeBits with frac = ResvSize * 6, the division by 10 dropped.
PeBitsNoTenth(more_bits, size) ==
  LET frac == size * 6
  IN  IF more_bits > 100
        THEN (IF frac < more_bits THEN frac ELSE more_bits)
        ELSE 0

\* add_bits after the perceptual-entropy branch
PeBits(more_bits, size) ==
  LET frac == CDiv(size * 6, 10)
  IN  IF more_bits > 100
        THEN (IF frac < more_bits THEN frac ELSE more_bits)
        ELSE 0

\* AddBits with over_bits measured before the entropy bonus is deducted.
AddBitsOverTwice(more_bits, size, max) ==
  LET add_bits  == PeBits(more_bits, size)
      over_bits == size - CDiv(max * 8, 10)
  IN  IF over_bits > 0 THEN add_bits + over_bits ELSE add_bits

\* AddBits without the over_bits branch of lines 82-84.
AddBitsNoOver(more_bits, size, max) == PeBits(more_bits, size)

\* add_bits after the over_bits branch
AddBits(more_bits, size, max) ==
  LET add_bits  == PeBits(more_bits, size)
      over_bits == size - CDiv(max * 8, 10) - add_bits
  IN  IF over_bits > 0 THEN add_bits + over_bits ELSE add_bits

\* MaxBitsValue without the early return of lines 68-69.
MaxBitsValueNoEarlyReturn(more_bits, mb, ch, size, max) ==
  LET max_bits == BaseBits(mb, ch) + AddBits(more_bits, size, max)
  IN  IF max_bits > 4095 THEN 4095 ELSE max_bits

\* the value ResvMaxBits returns
MaxBitsValue(more_bits, mb, ch, size, max) ==
  LET max_bits == BaseBits(mb, ch) + AddBits(more_bits, size, max)
  IN  IF max = 0 THEN BaseBits(mb, ch)
      ELSE IF max_bits > 4095 THEN 4095 ELSE max_bits

ResvMaxBits(pe, more_bits) ==
  /\ pc = "budget"
  /\ pc' = "quantize"
  /\ call' = [op |-> "ResvMaxBits", pe |-> pe, more_bits |-> more_bits,
              add_bits |-> IF ResvMax = 0 THEN 0
                           ELSE AddBits(more_bits, ResvSize, ResvMax),
              ret |-> MaxBitsValue(more_bits, mean_bits, channels, ResvSize, ResvMax)]
  /\ UNCHANGED <<mean_bits, channels, ResvSize, ResvMax, part2_3_length,
                 resvDrain, idx, frames>>

(***************************************************************************)
(* The quantizer and ResvAdjust                                            *)
(***************************************************************************)
\* The cells of a frame in loop order: granule 0 then 1, channel 0 then 1.
CellOrder(ch) ==
  IF ch = 2 THEN << <<0, 0>>, <<0, 1>>, <<1, 0>>, <<1, 1>> >>
            ELSE << <<0, 0>>, <<1, 0>> >>

CurrentCell == CellOrder(channels)[idx + 1]

\* The quantization stage stores the bits the granule took.
Quantize(bits) ==
  /\ pc = "quantize"
  /\ part2_3_length' = [part2_3_length EXCEPT ![CurrentCell] = bits]
  /\ pc' = "adjust"
  /\ call' = [op |-> "quantize", bits |-> bits,
              grant |-> [ret |-> call.ret, add_bits |-> call.add_bits]]
  /\ UNCHANGED <<mean_bits, channels, ResvSize, ResvMax, resvDrain, idx, frames>>

\* AdjustedSize crediting the capped max_bits of ResvMaxBits.
AdjustedSizeCapped(size, mb, ch, bits) == size + BaseBits(mb, ch) - bits

\* ResvSize after ResvAdjust for a granule of `bits` bits
AdjustedSize(size, mb, ch, bits) == size + CDiv(mb, ch) - bits

ResvAdjust ==
  /\ pc = "adjust"
  /\ ResvSize' = AdjustedSize(ResvSize, mean_bits, channels, part2_3_length[CurrentCell])
  /\ idx' = idx + 1
  /\ pc' = IF idx + 1 = Len(CellOrder(channels)) THEN "end" ELSE "budget"
  /\ call' = [op |-> "ResvAdjust", cell |-> CurrentCell, size0 |-> ResvSize,
              grant |-> call.grant]
  /\ UNCHANGED <<mean_bits, channels, ResvMax, part2_3_length, resvDrain, frames>>

(***************************************************************************)
(* ResvFrameEnd                                                            *)
(***************************************************************************)
\* Parity without the correction of lines 123-124.
ParityNone(mb, ch) == 0

\* Parity without the test of mean_bits & 1.
ParityAnyStereo(mb, ch) == IF ch = 2 THEN 1 ELSE 0

\* the correction for an odd mean_bits split over two channels
Parity(mb, ch) == IF ch = 2 /\ mb % 2 = 1 THEN 1 ELSE 0

\* over_bits = ResvSize - ResvMax; if(over_bits<0) over_bits = 0
Overflow(size, max) == IF size - max < 0 THEN 0 ELSE size - max

\* AlignBits aligning to half a byte.
AlignBitsNibble(size) == CRem(size, 4)

\* over_bits = ResvSize % 8
AlignBits(size) == CRem(size, 8)

\* plan a applies
PlanA(len, stuffingBits) == len + stuffingBits < 4095

\* PlanB filling every visited cell to 4095 (bitsThisGr without the minimum
\* of line 162).
RECURSIVE PlanBNoMin(_, _, _)
PlanBNoMin(cells, len, stuffingBits) ==
  IF cells = << >> THEN [len |-> len, stuffingBits |-> stuffingBits]
  ELSE IF stuffingBits = 0 THEN PlanBNoMin(Tail(cells), len, stuffingBits)
  ELSE LET c          == Head(cells)
           bitsThisGr == 4095 - len[c]
       IN  PlanBNoMin(Tail(cells), [len EXCEPT ![c] = @ + bitsThisGr],
                      stuffingBits - bitsThisGr)

\* PlanB with the room of a cell measured against plan a's 4094.
RECURSIVE PlanBRoom4094(_, _, _)
PlanBRoom4094(cells, len, stuffingBits) ==
  IF cells = << >> THEN [len |-> len, stuffingBits |-> stuffingBits]
  ELSE IF stuffingBits = 0 THEN PlanBRoom4094(Tail(cells), len, stuffingBits)
  ELSE LET c          == Head(cells)
           extraBits  == 4094 - len[c]
           bitsThisGr == IF extraBits < stuffingBits THEN extraBits ELSE stuffingBits
       IN  PlanBRoom4094(Tail(cells), [len EXCEPT ![c] = @ + bitsThisGr],
                         stuffingBits - bitsThisGr)

\* plan b over the cells still to visit: the lengths and the bits left over
RECURSIVE PlanB(_, _, _)
PlanB(cells, len, stuffingBits) ==
  IF cells = << >> THEN [len |-> len, stuffingBits |-> stuffingBits]
  ELSE IF stuffingBits = 0 THEN PlanB(Tail(cells), len, stuffingBits)
  ELSE LET c          == Head(cells)
           extraBits  == 4095 - len[c]
           bitsThisGr == IF extraBits < stuffingBits THEN extraBits ELSE stuffingBits
       IN  PlanB(Tail(cells), [len EXCEPT ![c] = @ + bitsThisGr],
                 stuffingBits - bitsThisGr)

ResvFrameEnd ==
  LET size1        == ResvSize + Parity(mean_bits, channels)
      over         == Overflow(size1, ResvMax)
      size2        == size1 - over
      align        == AlignBits(size2)
      size3        == size2 - align
      stuffingBits == over + align
      planA        == PlanA(part2_3_length[<<0, 0>>], stuffingBits)
      b            == PlanB(CellOrder(channels), part2_3_length, stuffingBits)
  IN  /\ pc = "end"
      /\ ResvSize' = size3
      /\ part2_3_length' =
           IF stuffingBits = 0 THEN part2_3_length
           ELSE IF planA
             THEN [part2_3_length EXCEPT ![<<0, 0>>] = @ + stuffingBits]
             ELSE b.len
      /\ resvDrain' =
           IF stuffingBits # 0 /\ ~planA THEN b.stuffingBits ELSE resvDrain
      /\ pc' = "begin"
      /\ frames' = frames + 1
      /\ call' = [op |-> "ResvFrameEnd", size0 |-> ResvSize, len0 |-> part2_3_length,
                  drain0 |-> resvDrain, over |-> over, align |-> align,
                  stuffingBits |-> stuffingBits,
                  plan |-> IF stuffingBits = 0 THEN "none"
                           ELSE IF planA THEN "a" ELSE "b"]
      /\ UNCHANGED <<mean_bits, channels, ResvMax, idx>>

(***************************************************************************)
(* The encoder: a session's configuration is fixed at start, the reservoir *)
(* is empty, and the frame loop calls ResvFrameBegin, then ResvMaxBits,    *)
(* the quantizer and ResvAdjust for each granule and channel, then         *)
(* ResvFrameEnd.                                                           *)
(***************************************************************************)
Init ==
  /\ \E c \in Configs : mean_bits = c[1] /\ channels = c[2]
  /\ ResvSize = 0
  /\ ResvMax = 0
  /\ part2_3_length = [c \in Cells |-> 0]
  /\ resvDrain = 0
  /\ pc = "begin"
  /\ idx = 0
  /\ frames = 0
  /\ call = [op |-> "init"]

FrameBeginStep ==
  /\ frames < MaxFrames
  /\ \E frameLength \in FrameLengths : ResvFrameBegin(frameLength)

MaxBitsStep ==
  \E pe \in PEs :
    \E more_bits \in DoubleToInt(pe, PerChannel(mean_bits, channels)) :
      ResvMaxBits(pe, more_bits)

QuantizeStep == \E bits \in BitsUsed : Quantize(bits)

Next ==
  \/ FrameBeginStep
  \/ MaxBitsStep
  \/ QuantizeStep
  \/ ResvAdjust
  \/ ResvFrameEnd

Spec == Init /\ [][Next]_vars

(***************************************************************************)
(* The spec's concrete scenario: stereo, mean_bits = 1001, every frame of  *)
(* 417 bits.  Three frames are needed before a frame can end its granules  *)
(* with 4103 bits in the reservoir.                                        *)
(***************************************************************************)
ScenarioBits == { 0, 1, 1893 }

ScenarioInit ==
  /\ mean_bits = 1001
  /\ channels = 2
  /\ ResvSize = 0
  /\ ResvMax = 0
  /\ part2_3_length = [c \in Cells |-> 0]
  /\ resvDrain = 0
  /\ pc = "begin"
  /\ idx = 0
  /\ frames = 0
  /\ call = [op |-> "init"]

ScenarioBeginStep ==
  /\ frames < ScenarioFrames
  /\ ResvFrameBegin(417)

ScenarioQuantizeStep == \E bits \in ScenarioBits : Quantize(bits)

ScenarioNext ==
  \/ ScenarioBeginStep
  \/ MaxBitsStep
  \/ ScenarioQuantizeStep
  \/ ResvAdjust
  \/ ResvFrameEnd

SpecScenario == ScenarioInit /\ [][ScenarioNext]_vars

(***************************************************************************)
(* A conforming quantizer: the granule takes no more bits than ResvMaxBits *)
(* has just granted.  It takes one of the sampled sizes or the whole       *)
(* grant.                                                                  *)
(***************************************************************************)
ConformingBits == { b \in BitsUsed \cup {call.ret} : 0 <= b /\ b <= call.ret }

ConformingQuantizeStep ==
  /\ pc = "quantize"
  /\ \E bits \in ConformingBits : Quantize(bits)

ConformingNext ==
  \/ FrameBeginStep
  \/ MaxBitsStep
  \/ ConformingQuantizeStep
  \/ ResvAdjust
  \/ ResvFrameEnd

SpecConforming == Init /\ [][ConformingNext]_vars

(***************************************************************************)
(* Properties.  After a call, `call` holds what the call saw and computed: *)
(* for ResvFrameEnd the ResvSize, lengths and resvDrain on entry, the      *)
(* overflow, the alignment bits, their sum and the plan taken.             *)
(***************************************************************************)
Min(a, b) == IF a < b THEN a ELSE b

Max(a, b) == IF a > b THEN a ELSE b

AfterFrameBegin == call.op = "ResvFrameBegin"

AfterMaxBits == call.op = "ResvMaxBits"

AfterFrameEnd == call.op = "ResvFrameEnd"

\* the bits ResvFrameEnd added to a cell
Received(c) == part2_3_length[c] - call.len0[c]

\* the bits ResvFrameEnd added to all cells
TotalReceived ==
  Received(<<0, 0>>) + Received(<<0, 1>>) + Received(<<1, 0>>) + Received(<<1, 1>>)

\* the cells of the frame, in order
Visited == CellOrder(channels)

\* the bits the cells before the k-th visited cell received
RECURSIVE ReceivedBefore(_)
ReceivedBefore(k) ==
  IF k <= 1 THEN 0 ELSE ReceivedBefore(k - 1) + Received(Visited[k - 1])

\* C1: after every ResvFrameEnd the reservoir size is a multiple of 8 and is
\* at most ResvMax.
C1_AlignedAndWithinMax ==
  AfterFrameEnd => (ResvSize % 8 = 0 /\ ResvSize <= ResvMax)

\* a ResvFrameEnd that cut an overflow and then aligned
C1_Witness ==
  AfterFrameEnd /\ call.over > 0 /\ call.align > 0

\* C2 as stated: after ResvFrameBegin, 0 <= ResvMax <= min(7680 - frameLength,
\* 4088), and ResvMax = 0 whenever frameLength > 7680.
C2_Original ==
  AfterFrameBegin =>
    /\ 0 <= ResvMax
    /\ ResvMax <= Min(7680 - call.frameLength, 4088)
    /\ (call.frameLength > 7680 => ResvMax = 0)

\* C2 amended: after ResvFrameBegin, 0 <= ResvMax <= min(7680 - frameLength,
\* 4088) whenever frameLength <= 7680, and ResvMax = 0 whenever
\* frameLength > 7680.
C2_Amended ==
  AfterFrameBegin =>
    /\ (call.frameLength <= 7680 =>
          0 <= ResvMax /\ ResvMax <= Min(7680 - call.frameLength, 4088))
    /\ (call.frameLength > 7680 => ResvMax = 0)

\* a frame longer than 7680 bits begun with bits still in the reservoir
C2_Witness ==
  AfterFrameBegin /\ call.frameLength > 7680 /\ ResvMax = 0 /\ ResvSize > 0

\* C3: ResvMaxBits returns a value in 0..4095, whatever the earlier granules
\* spent (0..4095 each) and for every perceptual entropy whose conversion to
\* int is defined.
C3_ReturnInRange ==
  (AfterMaxBits /\ call.pe < 700000000) => (0 <= call.ret /\ call.ret <= 4095)

\* C4: the stuffing bits ResvFrameEnd computes (overflow plus alignment) equal
\* the total increase of the part2_3_length fields plus resvDrain after the
\* call.
C4_StuffingConserved ==
  AfterFrameEnd => call.stuffingBits = TotalReceived + resvDrain

\* the room up to 4095 that the cells before the k-th visited cell had on entry
RECURSIVE RoomBefore(_)
RoomBefore(k) ==
  IF k <= 1 THEN 0 ELSE RoomBefore(k - 1) + (4095 - call.len0[Visited[k - 1]])

\* the stuffing bits of the frame that the cells of the frame cannot hold
Unabsorbed ==
  IF call.plan = "b"
    THEN Max(0, call.stuffingBits - RoomBefore(Len(Visited) + 1))
    ELSE 0

\* C5: after every ResvFrameEnd resvDrain is the number of this frame's
\* stuffing bits that no length field absorbed: 0 when there was no stuffing
\* or plan a took all of it, whatever an earlier frame left.
C5_DrainIsUnabsorbed ==
  AfterFrameEnd =>
    /\ (call.plan \in {"none", "a"} => resvDrain = 0)
    /\ (call.plan = "b" => resvDrain = Unabsorbed)

\* C6: ResvFrameEnd lowers no part2_3_length and raises none above 4095,
\* given that all are in 0..4095 on entry.
C6_LengthsOnlyGrowToCap ==
  (AfterFrameEnd /\ \A c \in Cells : call.len0[c] \in 0..4095) =>
    \A c \in Cells : call.len0[c] <= part2_3_length[c] /\ part2_3_length[c] <= 4095

\* C7 as stated: with ResvMax = 0, ResvMaxBits returns exactly
\* mean_bits / channels.
C7_Original ==
  (AfterMaxBits /\ ResvMax = 0) => call.ret = mean_bits \div channels

\* C7 amended: with ResvMax = 0, ResvMaxBits returns mean_bits / channels
\* capped at 4095, for every entropy and every reservoir size.
C7_Amended ==
  (AfterMaxBits /\ ResvMax = 0) => call.ret = Min(mean_bits \div channels, 4095)

\* a demanding granule budgeted with a closed but non-empty reservoir and a
\* per-channel share above the cap
C7_Witness ==
  /\ AfterMaxBits /\ ResvMax = 0
  /\ mean_bits \div channels > 4095
  /\ ResvSize > 0 /\ call.more_bits > 100
  /\ call.ret = 4095

\* the k-th visited cell received the smaller of its room and the pool left
GreedyShare(k) ==
  Received(Visited[k]) =
    Min(4095 - call.len0[Visited[k]], call.stuffingBits - ReceivedBefore(k))

\* C8: with stuffing bits to place, plan a (all of them into granule 0,
\* channel 0) is taken exactly when part2_3_length[0][0] + stuffingBits < 4095;
\* otherwise plan b gives each cell of the frame, in the order g0c0, g0c1,
\* g1c0, g1c1, the smaller of its room up to 4095 and the bits still left.
C8_PlanChoiceAndGreedyOrder ==
  (AfterFrameEnd /\ call.stuffingBits # 0) =>
    /\ (call.plan = "a") <=> (call.len0[<<0, 0>>] + call.stuffingBits < 4095)
    /\ (call.plan = "a") =>
         part2_3_length = [call.len0 EXCEPT ![<<0, 0>>] = @ + call.stuffingBits]
    /\ (call.plan # "a") =>
         /\ call.plan = "b"
         /\ \A k \in 1..Len(Visited) : GreedyShare(k)
         /\ \A c \in Cells : c[2] >= channels => Received(c) = 0

\* plan b spread the stuffing over at least two cells and left some over
C8_Witness ==
  /\ AfterFrameEnd /\ call.plan = "b"
  /\ Received(<<0, 0>>) > 0 /\ Received(Visited[2]) > 0
  /\ Received(Visited[2]) < 4095 - call.len0[Visited[2]]

\* every cell stood at 4094 when ResvFrameEnd was entered
AllAt4094 == \A c \in Cells : call.len0[c] = 4094

\* C9 as stated: with all four cells at 4094 and nonzero stuffingBits no
\* length changes and resvDrain becomes stuffingBits.
C9_Original ==
  (AfterFrameEnd /\ AllAt4094 /\ call.stuffingBits # 0) =>
    (part2_3_length = call.len0 /\ resvDrain = call.stuffingBits)

\* C9 amended: with all four cells at 4094 and stuffingBits > 0, each cell of
\* the frame in order takes one bit while bits remain, and resvDrain becomes
\* what is left, max(stuffingBits - 2 * channels, 0).
C9_Amended ==
  (AfterFrameEnd /\ AllAt4094 /\ call.stuffingBits > 0) =>
    /\ \A k \in 1..Len(Visited) :
         Received(Visited[k]) = (IF k <= call.stuffingBits THEN 1 ELSE 0)
    /\ resvDrain = Max(call.stuffingBits - 2 * channels, 0)

\* all four cells at 4094 and more stuffing than the four free bits
C9_Witness ==
  /\ AfterFrameEnd /\ AllAt4094 /\ call.stuffingBits > 4
  /\ \A c \in Cells : part2_3_length[c] = 4095
  /\ resvDrain = call.stuffingBits - 4

\* the scenario: stereo, mean_bits = 1001, ResvMax = 4088 (frameLength 417),
\* ResvFrameEnd entered with ResvSize = 4103
ScenarioEntry ==
  /\ AfterFrameEnd
  /\ channels = 2 /\ mean_bits = 1001 /\ ResvMax = 4088
  /\ call.size0 = 4103

\* C10 as stated: in the scenario ResvFrameEnd computes overflow 15, leaves
\* ResvSize = 4088, adds no alignment bits, and adds exactly 15 bits to
\* granule 0, channel 0 when part2_3_length[0][0] + 15 < 4095.
C10_Original ==
  ScenarioEntry =>
    /\ call.over = 15
    /\ ResvSize = 4088
    /\ call.align = 0
    /\ (call.len0[<<0, 0>>] + 15 < 4095 => Received(<<0, 0>>) = 15)

\* C10 amended: in the scenario the parity correction first makes ResvSize
\* 4104, so ResvFrameEnd computes overflow 16, leaves ResvSize = 4088, adds
\* no alignment bits, and adds exactly 16 bits to granule 0, channel 0 when
\* part2_3_length[0][0] + 16 < 4095.
C10_Amended ==
  ScenarioEntry =>
    /\ call.over = 16
    /\ ResvSize = 4088
    /\ call.align = 0
    /\ (call.len0[<<0, 0>>] + 16 < 4095 =>
          /\ Received(<<0, 0>>) = 16
          /\ TotalReceived = 16)

\* the scenario reached, with room for plan a
C10_Witness ==
  ScenarioEntry /\ call.len0[<<0, 0>>] + 16 < 4095 /\ call.plan = "a"

\* ResvFrameEnd was entered with ResvSize a multiple of 8 and within ResvMax
EnteredAlignedWithinMax ==
  AfterFrameEnd /\ call.size0 % 8 = 0 /\ call.size0 <= ResvMax

\* ResvFrameEnd changed neither ResvSize nor a length nor resvDrain
FrameEndChangedNothing ==
  /\ ResvSize = call.size0
  /\ part2_3_length = call.len0
  /\ resvDrain = call.drain0

\* C11 as stated: entered with ResvSize a multiple of 8 and <= ResvMax,
\* ResvFrameEnd leaves ResvSize, every part2_3_length and resvDrain unchanged,
\* for every channels and mean_bits.
C11_Original == EnteredAlignedWithinMax => FrameEndChangedNothing

\* C11 amended: the same, provided no parity correction applies (channels = 1
\* or mean_bits even).
C11_Amended ==
  (EnteredAlignedWithinMax /\ (channels = 1 \/ mean_bits % 2 = 0)) =>
    (FrameEndChangedNothing /\ call.stuffingBits = 0)

\* a stereo frame with an even budget that ended aligned, with bits banked
C11_Witness ==
  /\ EnteredAlignedWithinMax /\ channels = 2 /\ mean_bits % 2 = 0
  /\ call.size0 > 0 /\ FrameEndChangedNothing

AfterAdjust == call.op = "ResvAdjust"

\* the length ResvAdjust read
AdjustedLength == part2_3_length[call.cell]

\* C12 as stated: ResvAdjust changes ResvSize by base - part2_3_length, base
\* being mean_bits / channels capped at 4095 as in ResvMaxBits.
C12_Original ==
  AfterAdjust =>
    ResvSize - call.size0 = Min(mean_bits \div channels, 4095) - AdjustedLength

\* C12 amended: ResvAdjust changes ResvSize by mean_bits / channels -
\* part2_3_length, the per-channel share without the 4095 cap.
C12_Amended ==
  AfterAdjust =>
    ResvSize - call.size0 = (mean_bits \div channels) - AdjustedLength

\* a granule adjusted in a session whose per-channel share is above 4095
C12_Witness ==
  /\ AfterAdjust /\ mean_bits \div channels > 4095
  /\ AdjustedLength = 4095 /\ ResvSize > call.size0

\* C13: from an empty reservoir and with a quantizer that never takes more
\* than ResvMaxBits granted, ResvSize is never negative.
C13_NeverOverdrawn == ResvSize >= 0

\* a granule took its whole grant, bonus included, and drew on the reservoir
C13_Witness ==
  /\ AfterAdjust /\ AdjustedLength = call.grant.ret
  /\ call.grant.add_bits > 0 /\ ResvSize < call.size0

\* 60% of the reservoir and 80% of its limit, as C computes them
SixTenths(size) == IF size >= 0 THEN (size * 6) \div 10 ELSE -((-size * 6) \div 10)

Threshold == (ResvMax * 8) \div 10

\* the bonus of the last ResvMaxBits over the per-channel base
Bonus == call.ret - Min(mean_bits \div channels, 4095)

\* C14 as stated (for a reservoir that is not overdrawn and an entropy whose
\* conversion is defined): with ResvMax > 0 the bonus of ResvMaxBits never
\* exceeds 60% of ResvSize.
C14_Original ==
  (AfterMaxBits /\ ResvMax > 0 /\ ResvSize >= 0 /\ call.pe < 700000000) =>
    Bonus <= SixTenths(ResvSize)

\* C14 amended: with ResvMax > 0 the bonus never exceeds the larger of 60% of
\* ResvSize and the excess of ResvSize over 80% of ResvMax, and is never
\* positive when neither is.
C14_Amended ==
  (AfterMaxBits /\ ResvMax > 0) =>
    Bonus <= Max(0, Max(SixTenths(ResvSize), ResvSize - Threshold))

\* a forced spend larger than 60% of the reservoir, not cut by the 4095 cap
C14_Witness ==
  /\ AfterMaxBits /\ ResvMax > 0 /\ ResvSize >= 0
  /\ Bonus > SixTenths(ResvSize)
  /\ Bonus = ResvSize - Threshold
  /\ call.ret < 4095

\* the granule took exactly the grant, and neither 4095 cap had cut it
SpentUnclippedGrant ==
  /\ AfterAdjust
  /\ AdjustedLength = call.grant.ret
  /\ call.grant.ret = (mean_bits \div channels) + call.grant.add_bits

\* C15: with ResvMax > 0, a grant that no 4095 cap clipped and a granule that
\* takes exactly the grant, ResvSize after ResvAdjust is at most
\* (ResvMax * 8) / 10.
C15_SpendKeepsUnderThreshold ==
  (SpentUnclippedGrant /\ ResvMax > 0) => ResvSize <= Threshold

\* a reservoir above the threshold brought down to it by the forced spend
C15_Witness ==
  /\ SpentUnclippedGrant /\ ResvMax > 0
  /\ call.size0 > Threshold /\ ResvSize = Threshold

\* C16: ResvFrameBegin changes ResvMax alone (not ResvSize, resvDrain or a
\* part2_3_length); ResvMaxBits changes nothing; ResvAdjust changes ResvSize
\* alone; ResvFrameEnd never changes ResvMax.  The frame loop is at "begin",
\* "budget", "adjust" and "end" when it makes these calls.
C16_FrameConditions ==
  [][ /\ (pc = "begin" =>
            UNCHANGED <<ResvSize, resvDrain, part2_3_length, mean_bits, channels>>)
      /\ (pc = "budget" =>
            UNCHANGED <<ResvSize, ResvMax, resvDrain, part2_3_length,
                        mean_bits, channels>>)
      /\ (pc = "adjust" =>
            UNCHANGED <<ResvMax, resvDrain, part2_3_length, mean_bits, channels>>)
      /\ (pc = "end" => UNCHANGED <<ResvMax, mean_bits, channels>>) ]_vars

\* a frame begun with a smaller limit than the bits, drain and lengths that
\* the frame before left behind
C16_Witness ==
  /\ AfterFrameBegin /\ frames > 0
  /\ ResvMax > 0 /\ ResvSize > ResvMax
  /\ resvDrain > 0 /\ part2_3_length[<<0, 0>>] > 0

\* the bits the granules of the frame reported, as ResvFrameEnd found them
BitsUsedInFrame ==
  call.len0[<<0, 0>>] + call.len0[<<0, 1>>] + call.len0[<<1, 0>>] + call.len0[<<1, 1>>]

\* C17: in a stereo frame with odd mean_bits, the growth of ResvSize over the
\* frame plus the bits the four granules used plus the stuffing bits is the
\* frame's budget 2 * mean_bits.  (Stated for the first frame of a session,
\* which starts from ResvSize = 0.)
C17_FrameBudgetKept ==
  (AfterFrameEnd /\ frames = 1 /\ channels = 2 /\ mean_bits % 2 = 1) =>
    ResvSize + BitsUsedInFrame + call.stuffingBits = 2 * mean_bits

\* C18: right after ResvFrameBegin of a frame of at most 7680 bits the bits
\* carried over fit the new limit: ResvSize <= ResvMax, and so
\* ResvSize + frameLength <= 7680.
C18_CarriedBitsFitNewLimit ==
  (AfterFrameBegin /\ call.frameLength <= 7680) =>
    (ResvSize <= ResvMax /\ ResvSize + call.frameLength <= 7680)

====
